---- MODULE Spec2Model ----
(***************************************************************************)
(* Model of the RealSmile backend (alphadisjunkt/smile-backend).           *)
(*                                                                         *)
(* src/unnamed/part_000 is the final engine ("RealSmile API Server v2.0"): *)
(* six stabilised landmark metrics, a geometry-only weighted score, and    *)
(* the /api/analyze and /api/counter handlers.  src/server.js holds the    *)
(* earlier versions; its last one (lines 538-871) is the geometry +        *)
(* expression blend engine.                                                *)
(*                                                                         *)
(* JavaScript numbers are modelled as exact extended rationals: a finite   *)
(* value n/d in lowest terms, +Infinity, -Infinity or NaN, with the IEEE   *)
(* rules for division by zero and NaN propagation.  Binary rounding error  *)
(* of doubles is not modelled.  Landmark coordinates are multiples of      *)
(* 1/Grid pixel.                                                           *)
(***************************************************************************)
EXTENDS Integers, Sequences, FiniteSets, TLC

\* Coordinates are integers counted in 1/Grid pixel.
Grid == 4

----------------------------------------------------------------------------
(* JavaScript number arithmetic *)

RECURSIVE GCD(_, _)
GCD(a, b) == IF b = 0 THEN a ELSE GCD(b, a % b)

IAbs(i) == IF i < 0 THEN -i ELSE i

NaN == [k |-> "nan", n |-> 0, d |-> 1]
PInf == [k |-> "inf", n |-> 1, d |-> 1]
NInf == [k |-> "inf", n |-> -1, d |-> 1]

\* the finite number n/d (d # 0), in lowest terms with a positive denominator
Rat(n, d) ==
    LET g == GCD(IAbs(n), IAbs(d))
        s == IF d < 0 THEN -1 ELSE 1
    IN  [k |-> "fin", n |-> (s * n) \div g, d |-> (s * d) \div g]

Num(i) == [k |-> "fin", n |-> i, d |-> 1]

IsNaN(a) == a.k = "nan"
IsFin(a) == a.k = "fin"
Sign(a) == IF a.n > 0 THEN 1 ELSE IF a.n < 0 THEN -1 ELSE 0

Neg(a) == IF IsNaN(a) THEN NaN ELSE [a EXCEPT !.n = -a.n]

Add(a, b) ==
    IF IsNaN(a) \/ IsNaN(b) THEN NaN
    ELSE IF IsFin(a) /\ IsFin(b) THEN Rat(a.n * b.d + b.n * a.d, a.d * b.d)
    ELSE IF IsFin(a) THEN b
    ELSE IF IsFin(b) THEN a
    ELSE IF a.n = b.n THEN a ELSE NaN

Sub(a, b) == Add(a, Neg(b))

Mul(a, b) ==
    IF IsNaN(a) \/ IsNaN(b) THEN NaN
    ELSE IF IsFin(a) /\ IsFin(b) THEN Rat(a.n * b.n, a.d * b.d)
    ELSE IF Sign(a) = 0 \/ Sign(b) = 0 THEN NaN
    ELSE IF Sign(a) = Sign(b) THEN PInf ELSE NInf

\* a / b; every zero divisor of the program is a +0 (an absolute value or a
\* difference of equal numbers)
Div(a, b) ==
    IF IsNaN(a) \/ IsNaN(b) THEN NaN
    ELSE IF IsFin(a) /\ IsFin(b) THEN
        IF b.n # 0 THEN Rat(a.n * b.d, a.d * b.n)
        ELSE IF a.n = 0 THEN NaN
        ELSE IF a.n > 0 THEN PInf ELSE NInf
    ELSE IF IsFin(a) THEN Num(0)
    ELSE IF ~IsFin(b) THEN NaN
    ELSE IF Sign(b) >= 0 THEN a ELSE Neg(a)

\* a < b, false when either is NaN
Lt(a, b) ==
    /\ ~IsNaN(a)
    /\ ~IsNaN(b)
    /\ IF IsFin(a) /\ IsFin(b) THEN a.n * b.d < b.n * a.d
       ELSE IF IsFin(a) THEN b.n > 0
       ELSE IF IsFin(b) THEN a.n < 0
       ELSE a.n < b.n

Gt(a, b) == Lt(b, a)
Le(a, b) == ~IsNaN(a) /\ ~IsNaN(b) /\ ~Lt(b, a)
Ge(a, b) == Le(b, a)

MathAbs(a) == IF IsNaN(a) THEN NaN ELSE [a EXCEPT !.n = IAbs(a.n)]

MathMin(a, b) == IF IsNaN(a) \/ IsNaN(b) THEN NaN ELSE IF Lt(b, a) THEN b ELSE a

MathMax(a, b) == IF IsNaN(a) \/ IsNaN(b) THEN NaN ELSE IF Lt(a, b) THEN b ELSE a

\* Math.round: the nearest integer, halves towards +Infinity
MathRound(a) == IF IsFin(a) THEN Num((2 * a.n + a.d) \div (2 * a.d)) ELSE a

stable(value) == Div(MathRound(Mul(value, Num(10))), Num(10))

\* Math.max(0, Math.min(1, v))
Clamp01(v) == MathMax(Num(0), MathMin(Num(1), v))

----------------------------------------------------------------------------
(* Landmark sets *)

\* a detector point, coordinates in 1/Grid pixel; X and Y read it as a number
Pt(x, y) == [x |-> x, y |-> y]
X(p) == Rat(p.x, Grid)
Y(p) == Rat(p.y, Grid)

\* the i-th element of a JavaScript array (zero-based)
At(arr, i) == arr[i + 1]

\* landmarks.getLeftEye() and the other region accessors of the detector
getLeftEye(landmarks) == landmarks.leftEye
getRightEye(landmarks) == landmarks.rightEye
getNose(landmarks) == landmarks.nose
getMouth(landmarks) == landmarks.mouth
getJawOutline(landmarks) == landmarks.jaw

\* an eye of width w whose lids are hu above and hd below the corner line:
\* corner, two upper-lid points, corner, two lower-lid points
EyePoints(ox, oy, s) ==
    << Pt(ox, oy),
       Pt(ox + s.w \div 3, oy - s.hu),
       Pt(ox + s.w - s.w \div 3, oy - s.hu),
       Pt(ox + s.w, oy),
       Pt(ox + s.w - s.w \div 3, oy + s.hd),
       Pt(ox + s.w \div 3, oy + s.hd) >>

Eye(w, hu, hd) == [w |-> w, hu |-> hu, hd |-> hd]

\* the 68-point layout of one face, from its free measures (in 1/Grid pixel):
\* le, re eye shapes; edy the right eye's drop; nh nose tip to nose base;
\* n2m nose tip to upper lip; mh mouth opening; mcy, mdy the height of the left
\* mouth corner and the right corner's drop; mw mouth width; js the jaw's
\* step and jk the right half's shift
Face(p) ==
    LET cx == 1200
        ey == 800
        ny == 1000
        mty == ny + p.n2m
    IN  [ leftEye |-> EyePoints(960, ey, p.le),
          rightEye |-> EyePoints(1320, ey + p.edy, p.re),
          nose |-> [i \in 1..9 |->
                      IF i <= 4 THEN Pt(cx, ey + ((i - 1) * (ny - ey)) \div 3)
                      ELSE Pt(cx + (i - 7) * 12, ny + p.nh)],
          mouth |-> [i \in 1..20 |->
                      IF i = 1 THEN Pt(cx - p.mw \div 2, mty + p.mcy)
                      ELSE IF i <= 6 THEN
                          Pt(cx - p.mw \div 2 + (i - 1) * (p.mw \div 6), mty - 8)
                      ELSE IF i = 7 THEN
                          Pt(cx - p.mw \div 2 + p.mw, mty + p.mcy + p.mdy)
                      ELSE IF i <= 12 THEN
                          Pt(cx + p.mw \div 2 - (i - 7) * (p.mw \div 6), mty + p.mh + 8)
                      ELSE IF i = 13 THEN Pt(cx - p.mw \div 3, mty + p.mcy)
                      ELSE IF i <= 16 THEN Pt(cx + (i - 15) * (p.mw \div 8), mty)
                      ELSE IF i = 17 THEN Pt(cx + p.mw \div 3, mty + p.mcy + p.mdy)
                      ELSE Pt(cx - (i - 19) * (p.mw \div 8), mty + p.mh)],
          jaw |-> [i \in 1..17 |->
                      IF i <= 9 THEN Pt(cx - (9 - i) * p.js, ey + i * 40)
                      ELSE Pt(cx + (i - 9) * p.js + p.jk, ey + (18 - i) * 40)] ]

\* a detection whose 68 points all fall on one pixel
CollapsedFace ==
    [ leftEye |-> [i \in 1..6 |-> Pt(1200, 800)],
      rightEye |-> [i \in 1..6 |-> Pt(1200, 800)],
      nose |-> [i \in 1..9 |-> Pt(1200, 800)],
      mouth |-> [i \in 1..20 |-> Pt(1200, 800)],
      jaw |-> [i \in 1..17 |-> Pt(1200, 800)] ]

LeftEyeShapes ==
    { Eye(120, 20, 20), Eye(121, 24, 25), Eye(100, 30, 30),
      Eye(130, 15, 15), Eye(120, 0, 0), Eye(0, 0, 0) }
RightEyeShapes == { Eye(120, 20, 20), Eye(119, 17, 18), Eye(120, 0, 0) }

DefaultFace ==
    [ le |-> Eye(120, 20, 20), re |-> Eye(120, 20, 20), edy |-> 0, nh |-> 33,
      n2m |-> 120, mh |-> 40, mcy |-> 3, mdy |-> 0, mw |-> 200,
      js |-> 50, jk |-> 0 ]

EyeFaces ==
    { Face([DefaultFace EXCEPT !.le = l, !.re = r, !.edy = e]) :
        l \in LeftEyeShapes, r \in RightEyeShapes, e \in {0, 1, 24, 80} }

MouthFaces ==
    { Face([DefaultFace EXCEPT !.nh = a, !.n2m = b, !.mh = c, !.mcy = d,
                               !.mdy = e, !.mw = f]) :
        a \in {0, 33, 100}, b \in {0, 120, 400}, c \in {0, 40},
        d \in {-24, 3}, e \in {0, 1, 10, 104}, f \in {0, 200} }

JawFaces ==
    { Face([DefaultFace EXCEPT !.js = s, !.jk = k]) :
        s \in {0, 50}, k \in {0, 1, 40} }

\* mouths whose upper lip sits on a quarter pixel
SubPixelFaces ==
    { Face([DefaultFace EXCEPT !.n2m = b, !.mh = c]) : b \in {121, 123}, c \in {12, 40} }

LandmarkSets ==
    EyeFaces \cup MouthFaces \cup JawFaces \cup SubPixelFaces \cup {CollapsedFace}

----------------------------------------------------------------------------
(* The six metrics of the final engine (src/unnamed/part_000) *)

\* Math.round(v * 100)
Percent(v) == MathRound(Mul(v, Num(100)))

calculateEyeConstriction(landmarks) ==
    LET leftEye == getLeftEye(landmarks)
        rightEye == getRightEye(landmarks)
        leftEyeWidth == stable(MathAbs(Sub(X(At(leftEye, 3)), X(At(leftEye, 0)))))
        leftEyeHeight == stable(MathAbs(Sub(Y(At(leftEye, 1)), Y(At(leftEye, 5)))))
        rightEyeWidth == stable(MathAbs(Sub(X(At(rightEye, 3)), X(At(rightEye, 0)))))
        rightEyeHeight == stable(MathAbs(Sub(Y(At(rightEye, 1)), Y(At(rightEye, 5)))))
        leftAspectRatio == Div(leftEyeWidth, leftEyeHeight)
        rightAspectRatio == Div(rightEyeWidth, rightEyeHeight)
        avgAspectRatio == stable(Div(Add(leftAspectRatio, rightAspectRatio), Num(2)))
        eyeConstriction == Clamp01(Div(Sub(Num(4), avgAspectRatio), Num(2)))
    IN  Percent(eyeConstriction)

calculateCheekRaise(landmarks) ==
    LET nose == getNose(landmarks)
        leftEye == getLeftEye(landmarks)
        rightEye == getRightEye(landmarks)
        mouth == getMouth(landmarks)
        noseTip == At(nose, 3)
        leftEyeBottom == At(leftEye, 4)
        rightEyeBottom == At(rightEye, 4)
        mouthTop == At(mouth, 14)
        eyeToNoseLeft == stable(MathAbs(Sub(Y(leftEyeBottom), Y(noseTip))))
        eyeToNoseRight == stable(MathAbs(Sub(Y(rightEyeBottom), Y(noseTip))))
        noseToMouth == stable(MathAbs(Sub(Y(mouthTop), Y(noseTip))))
        avgEyeToNose == stable(Div(Add(eyeToNoseLeft, eyeToNoseRight), Num(2)))
        cheekRaise == Clamp01(Div(avgEyeToNose, noseToMouth))
    IN  Percent(cheekRaise)

calculateMouthCurve(landmarks) ==
    LET mouth == getMouth(landmarks)
        leftCorner == At(mouth, 0)
        rightCorner == At(mouth, 6)
        topCenter == At(mouth, 14)
        bottomCenter == At(mouth, 18)
        mouthHeight == stable(MathAbs(Sub(Y(bottomCenter), Y(topCenter))))
        cornerAvgY == stable(Div(Add(Y(leftCorner), Y(rightCorner)), Num(2)))
        curvature == Div(Sub(Y(topCenter), cornerAvgY), mouthHeight)
        mouthCurve == Clamp01(Add(curvature, Rat(1, 2)))
    IN  Percent(mouthCurve)

\* points.reduce((acc, point) => ({x: acc.x + point.x, y: acc.y + point.y}), {x: 0, y: 0})
RECURSIVE SumPoints(_, _)
SumPoints(points, i) ==
    IF i = 0 THEN [x |-> Num(0), y |-> Num(0)]
    ELSE LET acc == SumPoints(points, i - 1)
         IN  [x |-> Add(acc.x, X(points[i])), y |-> Add(acc.y, Y(points[i]))]

\* the eye centre of calculateSymmetry: the stabilised mean of the eye's points
EyeCenter(eye) ==
    LET sum == SumPoints(eye, Len(eye))
    IN  [x |-> stable(Div(sum.x, Num(Len(eye)))),
         y |-> stable(Div(sum.y, Num(Len(eye))))]

\* calculateSymmetry with the stable() around avgSymmetry left out: the variant
\* C6 is checked against
calculateSymmetryUnstabilised(landmarks) ==
    LET leftEye == getLeftEye(landmarks)
        rightEye == getRightEye(landmarks)
        mouth == getMouth(landmarks)
        leftEyeCenter == EyeCenter(leftEye)
        rightEyeCenter == EyeCenter(rightEye)
        leftMouthCorner == At(mouth, 0)
        rightMouthCorner == At(mouth, 6)
        eyeYDiff == stable(MathAbs(Sub(leftEyeCenter.y, rightEyeCenter.y)))
        eyeXDiff == stable(MathAbs(Sub(rightEyeCenter.x, leftEyeCenter.x)))
        eyeSymmetry == Sub(Num(1), Div(eyeYDiff, eyeXDiff))
        mouthYDiff == stable(MathAbs(Sub(Y(leftMouthCorner), Y(rightMouthCorner))))
        mouthXDiff == stable(MathAbs(Sub(X(rightMouthCorner), X(leftMouthCorner))))
        mouthSymmetry == Sub(Num(1), Div(mouthYDiff, mouthXDiff))
        avgSymmetry == Div(Add(eyeSymmetry, mouthSymmetry), Num(2))
    IN  Percent(Clamp01(avgSymmetry))

calculateSymmetry(landmarks) ==
    LET leftEye == getLeftEye(landmarks)
        rightEye == getRightEye(landmarks)
        mouth == getMouth(landmarks)
        leftEyeCenter == EyeCenter(leftEye)
        rightEyeCenter == EyeCenter(rightEye)
        leftMouthCorner == At(mouth, 0)
        rightMouthCorner == At(mouth, 6)
        eyeYDiff == stable(MathAbs(Sub(leftEyeCenter.y, rightEyeCenter.y)))
        eyeXDiff == stable(MathAbs(Sub(rightEyeCenter.x, leftEyeCenter.x)))
        eyeSymmetry == Sub(Num(1), Div(eyeYDiff, eyeXDiff))
        mouthYDiff == stable(MathAbs(Sub(Y(leftMouthCorner), Y(rightMouthCorner))))
        mouthXDiff == stable(MathAbs(Sub(X(rightMouthCorner), X(leftMouthCorner))))
        mouthSymmetry == Sub(Num(1), Div(mouthYDiff, mouthXDiff))
        avgSymmetry == stable(Div(Add(eyeSymmetry, mouthSymmetry), Num(2)))
    IN  Percent(Clamp01(avgSymmetry))

calculateLipCornerElevation(landmarks) ==
    LET mouth == getMouth(landmarks)
        nose == getNose(landmarks)
        leftCorner == At(mouth, 0)
        rightCorner == At(mouth, 6)
        upperLip == At(mouth, 14)
        noseTip == At(nose, 3)
        cornerAvgY == stable(Div(Add(Y(leftCorner), Y(rightCorner)), Num(2)))
        lipToNoseDistance == stable(MathAbs(Sub(Y(upperLip), Y(noseTip))))
        cornerToNoseDistance == stable(MathAbs(Sub(cornerAvgY, Y(noseTip))))
        elevation == Div(cornerToNoseDistance, lipToNoseDistance)
    IN  Percent(Clamp01(Sub(elevation, Rat(1, 2))))

calculateNoseLipDistance(landmarks) ==
    LET nose == getNose(landmarks)
        mouth == getMouth(landmarks)
        noseTip == At(nose, 3)
        upperLip == At(mouth, 14)
        noseBase == At(nose, 6)
        tipToLipDistance == stable(MathAbs(Sub(Y(upperLip), Y(noseTip))))
        noseHeight == stable(MathAbs(Sub(Y(noseBase), Y(noseTip))))
        compression == Sub(Num(1), Div(tipToLipDistance, Mul(noseHeight, Num(2))))
    IN  Percent(Clamp01(compression))

\* the six metric calls of the final engine's per-face callback
GeoMetrics(landmarks) ==
    [ eyeConstriction |-> calculateEyeConstriction(landmarks),
      cheekRaise |-> calculateCheekRaise(landmarks),
      mouthCurve |-> calculateMouthCurve(landmarks),
      symmetry |-> calculateSymmetry(landmarks),
      lipCornerElevation |-> calculateLipCornerElevation(landmarks),
      noseLipDistance |-> calculateNoseLipDistance(landmarks) ]

----------------------------------------------------------------------------
(* The four metrics of the blend engine (src/server.js, last version) *)

blendEyeConstriction(landmarks) ==
    LET leftEye == getLeftEye(landmarks)
        rightEye == getRightEye(landmarks)
        leftEyeWidth == MathAbs(Sub(X(At(leftEye, 3)), X(At(leftEye, 0))))
        leftEyeHeight == MathAbs(Sub(Y(At(leftEye, 1)), Y(At(leftEye, 5))))
        rightEyeWidth == MathAbs(Sub(X(At(rightEye, 3)), X(At(rightEye, 0))))
        rightEyeHeight == MathAbs(Sub(Y(At(rightEye, 1)), Y(At(rightEye, 5))))
        leftAspectRatio == Div(leftEyeWidth, leftEyeHeight)
        rightAspectRatio == Div(rightEyeWidth, rightEyeHeight)
        avgAspectRatio == Div(Add(leftAspectRatio, rightAspectRatio), Num(2))
        eyeConstriction == Clamp01(Div(Sub(avgAspectRatio, Num(3)), Num(3)))
    IN  Percent(eyeConstriction)

blendCheekRaise(landmarks) ==
    LET leftEye == getLeftEye(landmarks)
        rightEye == getRightEye(landmarks)
        nose == getNose(landmarks)
        mouth == getMouth(landmarks)
        leftEyeBottom == Y(At(leftEye, 4))
        rightEyeBottom == Y(At(rightEye, 4))
        avgEyeBottom == Div(Add(leftEyeBottom, rightEyeBottom), Num(2))
        noseBridge == Y(At(nose, 0))
        upperLip == Y(At(mouth, 14))
        faceHeight == Sub(upperLip, noseBridge)
        eyeToNose == Sub(avgEyeBottom, noseBridge)
        cheekRaise == Div(eyeToNose, faceHeight)
        normalized == Clamp01(Mul(cheekRaise, Rat(3, 2)))
    IN  Percent(normalized)

blendMouthCurve(landmarks) ==
    LET mouth == getMouth(landmarks)
        leftCorner == At(mouth, 0)
        rightCorner == At(mouth, 6)
        topCenter == At(mouth, 14)
        bottomCenter == At(mouth, 18)
        mouthWidth == MathAbs(Sub(X(rightCorner), X(leftCorner)))
        mouthHeight == MathAbs(Sub(Y(bottomCenter), Y(topCenter)))
        aspectRatio == Div(mouthWidth, mouthHeight)
        normalized == Clamp01(Div(Sub(aspectRatio, Num(2)), Num(3)))
    IN  Percent(normalized)

\* the jaw loop: i = 0 .. while i < jaw.length / 2
RECURSIVE JawDistance(_, _, _, _)
JawDistance(jaw, centerX, i, right) ==
    IF 2 * i >= Len(jaw) THEN Num(0)
    ELSE LET p == IF right THEN At(jaw, Len(jaw) - 1 - i) ELSE At(jaw, i)
         IN  Add(MathAbs(Sub(X(p), centerX)), JawDistance(jaw, centerX, i + 1, right))

blendSymmetry(landmarks) ==
    LET jaw == getJawOutline(landmarks)
        nose == getNose(landmarks)
        centerX == X(At(nose, 3))
        leftDistance == JawDistance(jaw, centerX, 0, FALSE)
        rightDistance == JawDistance(jaw, centerX, 0, TRUE)
        symmetryRatio == Div(MathMin(leftDistance, rightDistance),
                             MathMax(leftDistance, rightDistance))
    IN  Percent(symmetryRatio)

BlendMetrics(landmarks) ==
    [ eyeConstriction |-> blendEyeConstriction(landmarks),
      cheekRaise |-> blendCheekRaise(landmarks),
      mouthCurve |-> blendMouthCurve(landmarks),
      symmetry |-> blendSymmetry(landmarks) ]

----------------------------------------------------------------------------
(* Per-face scoring and assembly: the detections.map callbacks *)

\* Math.floor in place of Math.round: the variant C3 is checked against
geoFinalScoreTruncated(m) ==
    LET sum ==
            Add(Add(Add(Add(Add(
                Mul(m.eyeConstriction, Rat(40, 100)),
                Mul(m.cheekRaise, Rat(25, 100))),
                Mul(m.mouthCurve, Rat(15, 100))),
                Mul(m.symmetry, Rat(10, 100))),
                Mul(m.lipCornerElevation, Rat(5, 100))),
                Mul(m.noseLipDistance, Rat(5, 100)))
    IN  IF IsFin(sum) THEN Num(sum.n \div sum.d) ELSE sum

\* geometry-only: Math.round of the weighted sum of the six metrics
geoFinalScore(m) ==
    MathRound(
        Add(Add(Add(Add(Add(
            Mul(m.eyeConstriction, Rat(40, 100)),
            Mul(m.cheekRaise, Rat(25, 100))),
            Mul(m.mouthCurve, Rat(15, 100))),
            Mul(m.symmetry, Rat(10, 100))),
            Mul(m.lipCornerElevation, Rat(5, 100))),
            Mul(m.noseLipDistance, Rat(5, 100))))

\* >= in place of >: the variant C8 is checked against
geoIsGenuineInclusive(m) == Ge(m.eyeConstriction, Num(60)) /\ Ge(m.cheekRaise, Num(50))

geoIsGenuine(m) == Gt(m.eyeConstriction, Num(60)) /\ Gt(m.cheekRaise, Num(50))

\* > in place of >=: the variant C5 is checked against
geoVerdictStrict(finalScore) ==
    IF Gt(finalScore, Num(80)) THEN "Excellent genuine Duchenne smile!"
    ELSE IF Gt(finalScore, Num(65)) THEN "Good smile with genuine qualities"
    ELSE IF Gt(finalScore, Num(50)) THEN "Moderate smile, could be more natural"
    ELSE IF Gt(finalScore, Num(35)) THEN "Somewhat forced smile"
    ELSE "Appears to be a posed smile"

geoVerdict(finalScore) ==
    IF Ge(finalScore, Num(80)) THEN "Excellent genuine Duchenne smile!"
    ELSE IF Ge(finalScore, Num(65)) THEN "Good smile with genuine qualities"
    ELSE IF Ge(finalScore, Num(50)) THEN "Moderate smile, could be more natural"
    ELSE IF Ge(finalScore, Num(35)) THEN "Somewhat forced smile"
    ELSE "Appears to be a posed smile"

\* box / image size, as the callbacks compute it (no check of the divisor)
NormalizeBox(box, img) ==
    [ x |-> Div(Rat(box.x, Grid), Num(img.width)),
      y |-> Div(Rat(box.y, Grid), Num(img.height)),
      width |-> Div(Rat(box.width, Grid), Num(img.width)),
      height |-> Div(Rat(box.height, Grid), Num(img.height)) ]

\* score, isGenuine and verdict of the final engine, from the six metrics
GeoScoring(m) ==
    LET finalScore == geoFinalScore(m)
    IN  [ score |-> finalScore,
          isGenuine |-> geoIsGenuine(m),
          verdict |-> geoVerdict(finalScore),
          metrics |-> m ]

\* the final engine's callback for one detection
GeoFaceResult(detection, img) ==
    LET r == GeoScoring(GeoMetrics(detection.landmarks))
    IN  [ score |-> r.score, isGenuine |-> r.isGenuine, verdict |-> r.verdict,
          metrics |-> r.metrics,
          boundingBox |-> NormalizeBox(detection.box, img) ]

\* expressions.happy || 1: the variant C11 is checked against
HappinessDefaultOne(expressions) ==
    IF "happy" \in DOMAIN expressions
          /\ ~IsNaN(expressions.happy) /\ expressions.happy # Num(0)
    THEN expressions.happy ELSE Num(1)

\* expressions.happy || 0
Happiness(expressions) ==
    IF "happy" \in DOMAIN expressions
          /\ ~IsNaN(expressions.happy) /\ expressions.happy # Num(0)
    THEN expressions.happy ELSE Num(0)

blendFinalScore(m, happiness) ==
    LET geometricScore ==
            Add(Add(Add(
                Mul(m.eyeConstriction, Rat(25, 100)),
                Mul(m.cheekRaise, Rat(25, 100))),
                Mul(m.mouthCurve, Rat(35, 100))),
                Mul(m.symmetry, Rat(15, 100)))
        aiScore == Mul(happiness, Num(100))
        blendedScore == Add(Mul(geometricScore, Rat(4, 10)), Mul(aiScore, Rat(6, 10)))
    IN  MathRound(blendedScore)

blendIsGenuine(finalScore, happiness) ==
    Ge(finalScore, Num(55)) \/ Gt(happiness, Rat(1, 2))

\* the emoji that end the four labels in the source are left out
blendVerdict(finalScore, isGenuine) ==
    IF isGenuine
    THEN IF Ge(finalScore, Num(75)) THEN "Genuine Joy!" ELSE "Real Smile"
    ELSE IF Ge(finalScore, Num(35)) THEN "Polite Smile" ELSE "Fake Smile!"

BlendScoring(m, happiness) ==
    LET finalScore == blendFinalScore(m, happiness)
        isGenuine == blendIsGenuine(finalScore, happiness)
    IN  [ score |-> finalScore,
          isGenuine |-> isGenuine,
          verdict |-> blendVerdict(finalScore, isGenuine),
          metrics |-> m ]

\* the blend engine's callback for one detection
BlendFaceResult(detection, img) ==
    LET r == BlendScoring(BlendMetrics(detection.landmarks),
                          Happiness(detection.expressions))
    IN  [ score |-> r.score, isGenuine |-> r.isGenuine, verdict |-> r.verdict,
          metrics |-> r.metrics,
          boundingBox |-> NormalizeBox(detection.box, img) ]

----------------------------------------------------------------------------
(* What the detector hands to the engines *)

Boxes ==
    { [x |-> 400, y |-> 301, width |-> 802, height |-> 1000],
      [x |-> 0, y |-> 0, width |-> 0, height |-> 0] }

\* the detector's expression probabilities; the optional vector may lack "happy"
ExpressionVectors ==
    { [neutral |-> Num(1)],
      [neutral |-> Num(1), happy |-> Num(0)],
      [neutral |-> Rat(7, 10), happy |-> Rat(3, 10)],
      [neutral |-> Rat(1, 10), happy |-> Rat(9, 10)] }

\* pixel sizes of the decoded image
ImageSizes ==
    { [width |-> 640, height |-> 480], [width |-> 0, height |-> 480],
      [width |-> 640, height |-> 0], [width |-> 0, height |-> 0] }

DefaultBox == [x |-> 400, y |-> 301, width |-> 802, height |-> 1000]
DefaultImage == [width |-> 640, height |-> 480]

\* every landmark set and expression vector in a decoded image, and a few
\* faces with every box and image size
FaceInputs ==
    [detection : [landmarks : LandmarkSets, box : {DefaultBox},
                  expressions : ExpressionVectors],
     img : {DefaultImage}]
    \cup
    [detection : [landmarks : {Face(DefaultFace), CollapsedFace}, box : Boxes,
                  expressions : {[neutral |-> Rat(1, 10), happy |-> Rat(9, 10)]}],
     img : ImageSizes]

----------------------------------------------------------------------------
(* State *)

VARIABLES
    input,          \* what the step under study is given
    stage,          \* "input" before it ran, then the engine that ran: "geo", "blend"
    face,           \* what it returned
    cache,          \* the NodeCache: image hash -> cached result
    dailyCount,
    lastResetDate,
    today,          \* the day new Date() reports
    modelsLoaded,
    requestCount,
    cacheHits,
    preload,        \* the loadModels() call made at startup
    req             \* the /api/analyze requests: where each stands, its response
                    \* and the day its faces were counted

faceVars == <<input, stage, face>>
serverVars ==
    <<cache, dailyCount, lastResetDate, today, modelsLoaded, requestCount,
      cacheHits, preload, req>>
vars == <<input, stage, face, cache, dailyCount, lastResetDate, today,
          modelsLoaded, requestCount, cacheHits, preload, req>>

NoFace == [none |-> TRUE]

----------------------------------------------------------------------------
(* The server of the final engine (src/unnamed/part_000) *)

\* at most MaxReq /api/analyze requests and MaxDay changes of date are followed
MaxReq == 2
MaxDay == 1

Req == 1..MaxReq

\* let dailyCount = 450 and the reset value of checkDailyReset
Baseline == 450

\* req.body.image: absent, or a base64 payload with or without its data-URL prefix
NoImage == [prefix |-> FALSE, data |-> ""]
Images ==
    { NoImage,
      [prefix |-> FALSE, data |-> "one"], [prefix |-> TRUE, data |-> "one"],
      [prefix |-> FALSE, data |-> "mixed"], [prefix |-> FALSE, data |-> "empty"],
      [prefix |-> FALSE, data |-> "bad"] }

\* image.replace(/^data:image\/\w+;base64,/, '')
StripPrefix(image) == image.data

\* the md5 digest, taken to be free of collisions on the payloads followed
hashImage(base64Data) == base64Data

NormalDetection ==
    [ landmarks |-> Face(DefaultFace), box |-> DefaultBox,
      expressions |-> [neutral |-> Rat(1, 10), happy |-> Rat(9, 10)] ]
TiltedDetection ==
    [ landmarks |-> Face([DefaultFace EXCEPT !.le = Eye(121, 24, 25), !.edy = 80]),
      box |-> [x |-> 1200, y |-> 300, width |-> 640, height |-> 800],
      expressions |-> [neutral |-> Rat(7, 10), happy |-> Rat(3, 10)] ]
DegenerateDetection ==
    [ landmarks |-> CollapsedFace,
      box |-> [x |-> 40, y |-> 40, width |-> 20, height |-> 20],
      expressions |-> [neutral |-> Num(1), happy |-> Num(0)] ]

\* what decoding the payload and faceapi.detectAllFaces(...) give for it: the
\* detections in the detector's order, or an exception
Detector(base64Data) ==
    CASE base64Data = "one" -> [throws |-> FALSE, detections |-> <<NormalDetection>>]
      [] base64Data = "mixed" ->
            [throws |-> FALSE,
             detections |-> <<TiltedDetection, DegenerateDetection, NormalDetection>>]
      [] base64Data = "empty" -> [throws |-> FALSE, detections |-> <<>>]
      [] OTHER -> [throws |-> TRUE, detections |-> <<>>]

\* the decoded image's pixel size
ImageOf(base64Data) == DefaultImage

NoResponse == [status |-> 0, body |-> [none |-> TRUE]]

\* req[r].day: the day on which the request added its faces to dailyCount
\* (a record kept for the properties, not by the program); NoDay until then
NoDay == 0 - 1
Respond(status, body) == [status |-> status, body |-> body]

ServerInit ==
    /\ cache = [h \in {} |-> NoResponse]
    /\ dailyCount = Baseline
    /\ lastResetDate = 0
    /\ today = 0
    /\ modelsLoaded = FALSE
    /\ requestCount = 0
    /\ cacheHits = 0
    /\ preload = "loading"
    /\ req = [r \in Req |->
                [pc |-> "idle", image |-> NoImage, day |-> NoDay, res |-> NoResponse]]

checkDailyReset(count, last, now) ==
    IF now # last THEN [dailyCount |-> Baseline, lastResetDate |-> now]
    ELSE [dailyCount |-> count, lastResetDate |-> last]

\* the FaceResults in reverse order: the variant C9 is checked against
MapDetectionsReversed(detections, img) ==
    [i \in 1..Len(detections) |->
        GeoFaceResult(detections[Len(detections) + 1 - i], img)]

\* detections.map(callback): one FaceResult per detection, in order
MapDetections(detections, img) ==
    [i \in 1..Len(detections) |-> GeoFaceResult(detections[i], img)]

\* detections.map(callback) for every payload followed, evaluated once
Payloads == { StripPrefix(image) : image \in Images \ {NoImage} }
People == [d \in Payloads |-> MapDetections(Detector(d).detections, ImageOf(d))]

\* a handler that counts the faces of a cache hit again: the variant C19 is
\* checked against
AnalyzeStartCounting(r, image) ==
    /\ req[r].pc = "idle"
    /\ \A q \in Req : q < r => req[q].pc # "idle"
    /\ requestCount' = requestCount + 1
    /\ IF image = NoImage THEN
          /\ req' = [req EXCEPT ![r] = [pc |-> "done", image |-> image, day |-> NoDay,
                        res |-> Respond(400, [error |-> "No image provided"])]]
          /\ UNCHANGED <<cacheHits, dailyCount>>
       ELSE IF hashImage(StripPrefix(image)) \in DOMAIN cache THEN
          /\ cacheHits' = cacheHits + 1
          /\ dailyCount' = dailyCount + Len(cache[hashImage(StripPrefix(image))].people)
          /\ req' = [req EXCEPT ![r] = [pc |-> "done", image |-> image, day |-> NoDay,
                        res |-> Respond(200, cache[hashImage(StripPrefix(image))])]]
       ELSE
          /\ req' = [req EXCEPT ![r] = [pc |-> IF modelsLoaded THEN "detecting"
                                                ELSE "loading",
                                        image |-> image, day |-> NoDay,
                                        res |-> NoResponse]]
          /\ UNCHANGED <<cacheHits, dailyCount>>
    /\ UNCHANGED <<cache, lastResetDate, today, modelsLoaded, preload>>

\* POST /api/analyze up to its first await that waits: no image, a cache hit,
\* models already loaded (on to detection) or a model download begun.
\* Requests are numbered in their order of arrival.
AnalyzeStart(r, image) ==
    /\ req[r].pc = "idle"
    /\ \A q \in Req : q < r => req[q].pc # "idle"
    /\ requestCount' = requestCount + 1
    /\ IF image = NoImage THEN
          /\ req' = [req EXCEPT ![r] = [pc |-> "done", image |-> image, day |-> NoDay,
                        res |-> Respond(400, [error |-> "No image provided"])]]
          /\ UNCHANGED cacheHits
       ELSE IF hashImage(StripPrefix(image)) \in DOMAIN cache THEN
          /\ cacheHits' = cacheHits + 1
          /\ req' = [req EXCEPT ![r] = [pc |-> "done", image |-> image, day |-> NoDay,
                        res |-> Respond(200, cache[hashImage(StripPrefix(image))])]]
       ELSE
          /\ req' = [req EXCEPT ![r] = [pc |-> IF modelsLoaded THEN "detecting"
                                                ELSE "loading",
                                        image |-> image, day |-> NoDay,
                                        res |-> NoResponse]]
          /\ UNCHANGED cacheHits
    /\ UNCHANGED <<cache, dailyCount, lastResetDate, today, modelsLoaded, preload>>

\* the request's loadModels() download completes: on to detection
LoadSucceeds(r) ==
    /\ req[r].pc = "loading"
    /\ modelsLoaded' = TRUE
    /\ req' = [req EXCEPT ![r].pc = "detecting"]
    /\ UNCHANGED <<cache, dailyCount, lastResetDate, today, requestCount, cacheHits,
                   preload>>

\* the request's loadModels() download fails: the catch answers 500
LoadFails(r) ==
    /\ req[r].pc = "loading"
    /\ req' = [req EXCEPT ![r].pc = "done",
                          ![r].res = Respond(500, [error |-> "Analysis failed",
                                                   message |-> "model load"])]
    /\ UNCHANGED <<cache, dailyCount, lastResetDate, today, modelsLoaded, requestCount,
                   cacheHits, preload>>

\* a handler in which a NaN score makes the callback throw, so that the catch
\* answers 500 for the whole batch: the variant C12 is checked against
DetectReturnsAborting(r) ==
    /\ req[r].pc = "detecting"
    /\ LET base64Data == StripPrefix(req[r].image)
           imageHash == hashImage(base64Data)
           found == Detector(base64Data)
           people == People[base64Data]
           result == [people |-> people]
       IN  IF found.throws \/ \E i \in 1..Len(people) : IsNaN(people[i].score) THEN
              /\ req' = [req EXCEPT ![r].pc = "done",
                            ![r].res = Respond(500, [error |-> "Analysis failed",
                                                     message |-> "detection"])]
              /\ UNCHANGED <<cache, dailyCount>>
           ELSE IF Len(found.detections) = 0 THEN
              /\ req' = [req EXCEPT ![r].pc = "done",
                            ![r].res = Respond(200, [people |-> <<>>])]
              /\ UNCHANGED <<cache, dailyCount>>
           ELSE
              /\ dailyCount' = dailyCount + Len(people)
              /\ cache' = [h \in DOMAIN cache \cup {imageHash} |->
                              IF h = imageHash THEN result ELSE cache[h]]
              /\ req' = [req EXCEPT ![r].pc = "done", ![r].day = today,
                                    ![r].res = Respond(200, result)]
    /\ UNCHANGED <<lastResetDate, today, modelsLoaded, requestCount, cacheHits,
                   preload>>

\* detection is over: the rest of the handler
DetectReturns(r) ==
    /\ req[r].pc = "detecting"
    /\ LET base64Data == StripPrefix(req[r].image)
           imageHash == hashImage(base64Data)
           found == Detector(base64Data)
           people == People[base64Data]
           result == [people |-> people]
       IN  IF found.throws THEN
              /\ req' = [req EXCEPT ![r].pc = "done",
                            ![r].res = Respond(500, [error |-> "Analysis failed",
                                                     message |-> "detection"])]
              /\ UNCHANGED <<cache, dailyCount>>
           ELSE IF Len(found.detections) = 0 THEN
              /\ req' = [req EXCEPT ![r].pc = "done",
                            ![r].res = Respond(200, [people |-> <<>>])]
              /\ UNCHANGED <<cache, dailyCount>>
           ELSE
              /\ dailyCount' = dailyCount + Len(people)
              /\ cache' = [h \in DOMAIN cache \cup {imageHash} |->
                              IF h = imageHash THEN result ELSE cache[h]]
              /\ req' = [req EXCEPT ![r].pc = "done", ![r].day = today,
                                    ![r].res = Respond(200, result)]
    /\ UNCHANGED <<lastResetDate, today, modelsLoaded, requestCount, cacheHits,
                   preload>>

\* the startup loadModels() completes
PreloadSucceeds ==
    /\ preload = "loading"
    /\ preload' = "loaded"
    /\ modelsLoaded' = TRUE
    /\ UNCHANGED <<cache, dailyCount, lastResetDate, today, requestCount, cacheHits,
                   req>>

\* the startup loadModels() fails; the failure is logged
PreloadFails ==
    /\ preload = "loading"
    /\ preload' = "failed"
    /\ UNCHANGED <<cache, dailyCount, lastResetDate, today, modelsLoaded, requestCount,
                   cacheHits, req>>

\* what GET /api/counter answers when it is called in this state:
\* checkDailyReset(), then res.json({ count: dailyCount, date: lastResetDate })
CounterResponse ==
    LET c == checkDailyReset(dailyCount, lastResetDate, today)
    IN  Respond(200, [count |-> c.dailyCount, date |-> c.lastResetDate])

\* GET /api/counter: the counter is reset if the date changed, then reported
GetCounter ==
    /\ LET c == checkDailyReset(dailyCount, lastResetDate, today)
       IN  /\ dailyCount' = c.dailyCount
           /\ lastResetDate' = c.lastResetDate
    /\ UNCHANGED <<cache, today, modelsLoaded, requestCount, cacheHits, preload, req>>

\* GET /: the counter is reset if the date changed, then status and statistics
\* are reported (the report is not kept)
GetRoot ==
    /\ LET c == checkDailyReset(dailyCount, lastResetDate, today)
       IN  /\ dailyCount' = c.dailyCount
           /\ lastResetDate' = c.lastResetDate
    /\ UNCHANGED <<cache, today, modelsLoaded, requestCount, cacheHits, preload, req>>

\* GET /health reports modelsLoaded and changes nothing
GetHealth == UNCHANGED serverVars

\* midnight: new Date().toDateString() changes
DayPasses ==
    /\ today < MaxDay
    /\ today' = today + 1
    /\ UNCHANGED <<cache, dailyCount, lastResetDate, modelsLoaded, requestCount,
                   cacheHits, preload, req>>

\* an entry's TTL of one hour runs out
CacheExpires(h) ==
    /\ h \in DOMAIN cache
    /\ cache' = [k \in DOMAIN cache \ {h} |-> cache[k]]
    /\ UNCHANGED <<dailyCount, lastResetDate, today, modelsLoaded, requestCount,
                   cacheHits, preload, req>>

Init ==
    /\ ServerInit
    /\ input = NoFace
    /\ stage = "server"
    /\ face = NoFace

Next ==
    \/ \E r \in Req, image \in Images : AnalyzeStart(r, image) /\ UNCHANGED faceVars
    \/ \E r \in Req : LoadSucceeds(r) /\ UNCHANGED faceVars
    \/ \E r \in Req : LoadFails(r) /\ UNCHANGED faceVars
    \/ \E r \in Req : DetectReturns(r) /\ UNCHANGED faceVars
    \/ PreloadSucceeds /\ UNCHANGED faceVars
    \/ PreloadFails /\ UNCHANGED faceVars
    \/ GetCounter /\ UNCHANGED faceVars
    \/ GetRoot /\ UNCHANGED faceVars
    \/ GetHealth /\ UNCHANGED faceVars
    \/ DayPasses /\ UNCHANGED faceVars
    \/ \E h \in DOMAIN cache : CacheExpires(h) /\ UNCHANGED faceVars

Spec == Init /\ [][Next]_vars

----------------------------------------------------------------------------
(* One detection through a per-face callback *)

InitFace ==
    /\ ServerInit
    /\ stage = "input"
    /\ input \in FaceInputs
    /\ face = NoFace

\* the final engine's callback runs on the detection
AssembleGeo ==
    /\ stage = "input"
    /\ face' = GeoFaceResult(input.detection, input.img)
    /\ stage' = "geo"
    /\ UNCHANGED <<input, serverVars>>

\* the blend engine's callback runs on the detection
AssembleBlend ==
    /\ stage = "input"
    /\ face' = BlendFaceResult(input.detection, input.img)
    /\ stage' = "blend"
    /\ UNCHANGED <<input, serverVars>>

NextFace == AssembleGeo \/ AssembleBlend

SpecFace == InitFace /\ [][NextFace]_vars

----------------------------------------------------------------------------
(* One metric set through the scoring policies *)

NumSet(S) == { Num(i) : i \in S }

\* metric values the metric functions can return: eye constriction is a
\* multiple of 5 and symmetry a multiple of 10 in the final engine
MetricSets ==
    [ eyeConstriction : NumSet({0, 35, 60, 65, 70, 100}),
      cheekRaise : NumSet({0, 50, 51, 60, 100}),
      mouthCurve : NumSet({0, 50, 57, 100}),
      symmetry : NumSet({0, 50, 100}),
      lipCornerElevation : NumSet({0, 100}),
      noseLipDistance : NumSet({0, 3}) ]

HappyValues == { Num(0), Rat(1, 2), Rat(51, 100), Num(1) }

\* detection.expressions for the scoring: no "happy" entry, or one of HappyValues
ScoreExpressions ==
    { [neutral |-> Num(1)] }
        \cup { [neutral |-> Sub(Num(1), h), happy |-> h] : h \in HappyValues }

InitScore ==
    /\ ServerInit
    /\ stage = "input"
    /\ input \in [metrics : MetricSets, expressions : ScoreExpressions]
    /\ face = NoFace

\* the final engine scores the six metrics
ScoreGeo ==
    /\ stage = "input"
    /\ face' = GeoScoring(input.metrics)
    /\ stage' = "geo"
    /\ UNCHANGED <<input, serverVars>>

\* the blend engine scores its four metrics and the happy probability
ScoreBlend ==
    /\ stage = "input"
    /\ face' = BlendScoring(
                  [k \in {"eyeConstriction", "cheekRaise", "mouthCurve", "symmetry"}
                      |-> input.metrics[k]],
                  Happiness(input.expressions))
    /\ stage' = "blend"
    /\ UNCHANGED <<input, serverVars>>

NextScore == ScoreGeo \/ ScoreBlend

SpecScore == InitScore /\ [][NextScore]_vars

----------------------------------------------------------------------------
(* Claims *)

\* an integer in 0..100
IsScore(v) == IsFin(v) /\ v.d = 1 /\ 0 <= v.n /\ v.n <= 100

\* C1: each of the six metrics the final engine computes for a landmark set
\* with finite coordinates is an integer in 0..100
C1_MetricsInRange ==
    stage = "geo" => \A k \in DOMAIN face.metrics : IsScore(face.metrics[k])

\* an eye whose points 1 and 5 have the same y
ZeroEyeHeight(landmarks) ==
    \/ At(getLeftEye(landmarks), 1).y = At(getLeftEye(landmarks), 5).y
    \/ At(getRightEye(landmarks), 1).y = At(getRightEye(landmarks), 5).y

\* C2: the final engine returns a FaceResult only for an eye height that is
\* not zero (a zero one ends in DegenerateGeometry), and no NaN or Infinity
\* is among the returned metrics or is the returned score
C2_DegenerateGeometry ==
    stage = "geo" =>
        /\ ~ZeroEyeHeight(input.detection.landmarks)
        /\ \A k \in DOMAIN face.metrics : IsFin(face.metrics[k])
        /\ IsFin(face.score)

\* 100 times the weighted sum 0.40, 0.25, 0.15, 0.10, 0.05, 0.05 of integer metrics
WeightedHundredths(m) ==
    40 * m.eyeConstriction.n + 25 * m.cheekRaise.n + 15 * m.mouthCurve.n
        + 10 * m.symmetry.n + 5 * m.lipCornerElevation.n + 5 * m.noseLipDistance.n

C4_ScoreInRange == stage \in {"geo", "blend"} => IsScore(face.score)

GeoThresholds == {80, 65, 50, 35, 0}

GeoLabel(t) ==
    CASE t = 80 -> "Excellent genuine Duchenne smile!"
      [] t = 65 -> "Good smile with genuine qualities"
      [] t = 50 -> "Moderate smile, could be more natural"
      [] t = 35 -> "Somewhat forced smile"
      [] t = 0 -> "Appears to be a posed smile"

\* C5: for a score in 0..100 the geometry-only verdict is the label of exactly
\* one threshold of 80, 65, 50, 35, 0: the highest one that is <= the score
C5_Verdict ==
    stage = "geo" /\ IsScore(face.score) =>
        \A t \in GeoThresholds :
            face.verdict = GeoLabel(t)
                <=> /\ t <= face.score.n
                    /\ \A u \in GeoThresholds : u <= face.score.n => u <= t

\* scores on a threshold and just below it get different labels
C5_Witness ==
    /\ stage = "geo"
    /\ face.score = Num(65)
    /\ face.verdict = "Good smile with genuine qualities"

\* round(10 * n / d), d > 0: a stabilised quotient counted in tenths
Tenths(n, d) == (20 * n + d) \div (2 * d)

RECURSIVE SumCoord(_, _, _)
SumCoord(points, i, c) ==
    IF i = 0 THEN 0 ELSE SumCoord(points, i - 1, c) + points[i][c]

\* the stabilised offsets and spans behind the final engine's symmetry, in tenths
\* of a pixel: eye centres (eY vertical, eX horizontal), mouth corners (mY, mX)
GeoSpans(l) ==
    LET cxL == Tenths(SumCoord(l.leftEye, 6, "x"), 6 * Grid)
        cyL == Tenths(SumCoord(l.leftEye, 6, "y"), 6 * Grid)
        cxR == Tenths(SumCoord(l.rightEye, 6, "x"), 6 * Grid)
        cyR == Tenths(SumCoord(l.rightEye, 6, "y"), 6 * Grid)
    IN  [ eY |-> IAbs(cyL - cyR), eX |-> IAbs(cxR - cxL),
          mY |-> Tenths(IAbs(l.mouth[1].y - l.mouth[7].y), Grid),
          mX |-> Tenths(IAbs(l.mouth[7].x - l.mouth[1].x), Grid) ]

\* the eye centres are level and the mouth corners are level
GeoIdentical(l) ==
    /\ SumCoord(l.leftEye, 6, "y") = SumCoord(l.rightEye, 6, "y")
    /\ l.mouth[1].y = l.mouth[7].y

\* the summed horizontal distances of the jaw's two halves from the nose centre
JawSums(l) ==
    LET cx == l.nose[4].x
        F[i \in 0..9] ==
            IF i = 0 THEN [L |-> 0, R |-> 0]
            ELSE [L |-> F[i - 1].L + IAbs(l.jaw[i].x - cx),
                  R |-> F[i - 1].R + IAbs(l.jaw[18 - i].x - cx)]
    IN  F[9]

IMin(a, b) == IF a < b THEN a ELSE b
IMax(a, b) == IF a < b THEN b ELSE a

\* C6, as amended: the symmetry metric is NaN exactly when an offset and its
\* span are both zero (jaw variant: both sums zero); otherwise it is an integer
\* in 0..100 that is 100 exactly when the asymmetry is rounded away: in the
\* final engine when the mean of offset/span over eyes and mouth is at most
\* 0.05, in the jaw variant when min/max of the two sums is at least 0.995.
\* Identical left and right distances therefore give 100 unless they give NaN.
C6_Symmetry ==
    /\ stage = "geo" =>
        LET l == input.detection.landmarks
            v == face.metrics.symmetry
            g == GeoSpans(l)
        IN  /\ IsNaN(v) <=> (g.eX = 0 /\ g.eY = 0) \/ (g.mX = 0 /\ g.mY = 0)
            /\ ~IsNaN(v) =>
                /\ IsScore(v)
                /\ v = Num(100) <=>
                      /\ g.eX > 0
                      /\ g.mX > 0
                      /\ 10 * (g.eY * g.mX + g.mY * g.eX) <= g.eX * g.mX
                /\ GeoIdentical(l) => v = Num(100)
    /\ stage = "blend" =>
        LET l == input.detection.landmarks
            v == face.metrics.symmetry
            j == JawSums(l)
        IN  /\ IsNaN(v) <=> j.L = 0 /\ j.R = 0
            /\ ~IsNaN(v) =>
                /\ IsScore(v)
                /\ v = Num(100) <=> 200 * IMin(j.L, j.R) >= 199 * IMax(j.L, j.R)
                /\ j.L = j.R => v = Num(100)

\* the eye centres differ by 6 pixels in height and symmetry is still 100
C6_Witness ==
    /\ stage = "geo"
    /\ ~GeoIdentical(input.detection.landmarks)
    /\ GeoSpans(input.detection.landmarks).eY = 60
    /\ face.metrics.symmetry = Num(100)

\* C6 as stated: symmetry is exactly 100 when the left and right distances are
\* identical and strictly less than 100 whenever they differ, in both variants
C6_Original ==
    /\ stage = "geo" =>
        IF GeoIdentical(input.detection.landmarks)
        THEN face.metrics.symmetry = Num(100)
        ELSE Lt(face.metrics.symmetry, Num(100))
    /\ stage = "blend" =>
        IF JawSums(input.detection.landmarks).L = JawSums(input.detection.landmarks).R
        THEN face.metrics.symmetry = Num(100)
        ELSE Lt(face.metrics.symmetry, Num(100))

\* the averaged eye aspect ratio the final engine maps: the mean of stabilised
\* width over stabilised height of the two eyes
GeoEyeRatio(l) ==
    LET W(eye) == stable(MathAbs(Sub(X(At(eye, 3)), X(At(eye, 0)))))
        H(eye) == stable(MathAbs(Sub(Y(At(eye, 1)), Y(At(eye, 5)))))
    IN  Div(Add(Div(W(l.leftEye), H(l.leftEye)), Div(W(l.rightEye), H(l.rightEye))),
            Num(2))

\* the averaged raw eye aspect ratio, which the blend engine maps
RawEyeRatio(l) ==
    LET W(eye) == MathAbs(Sub(X(At(eye, 3)), X(At(eye, 0))))
        H(eye) == MathAbs(Sub(Y(At(eye, 1)), Y(At(eye, 5))))
    IN  Div(Add(Div(W(l.leftEye), H(l.leftEye)), Div(W(l.rightEye), H(l.rightEye))),
            Num(2))

\* What the two engines do: the final engine's calculateEyeConstriction never
\* rises when the averaged aspect ratio of the stabilised eye sizes rises; the
\* blend engine's calculateEyeConstriction never falls when the averaged raw
\* aspect ratio rises
EyeConstrictionDirections ==
    /\ stage = "geo" =>
        \A o \in EyeFaces :
            Le(GeoEyeRatio(input.detection.landmarks), GeoEyeRatio(o))
                => Le(calculateEyeConstriction(o), face.metrics.eyeConstriction)
    /\ stage = "blend" =>
        \A o \in EyeFaces :
            Le(RawEyeRatio(input.detection.landmarks), RawEyeRatio(o))
                => Le(face.metrics.eyeConstriction, blendEyeConstriction(o))

\* C7: calculateEyeConstriction, in the final and in the blend engine, never
\* rises when the averaged eye width/height aspect ratio rises: a landmark set
\* whose ratio is at least that of another scores at most what the other scores
C7_Original ==
    /\ stage = "geo" =>
        \A o \in EyeFaces :
            Le(RawEyeRatio(input.detection.landmarks), RawEyeRatio(o))
                => Le(calculateEyeConstriction(o), face.metrics.eyeConstriction)
    /\ stage = "blend" =>
        \A o \in EyeFaces :
            Le(RawEyeRatio(input.detection.landmarks), RawEyeRatio(o))
                => Le(blendEyeConstriction(o), face.metrics.eyeConstriction)

\* the blend engine scores eyes of 30 x 10 pixels (ratio 3) at 0 and a face
\* whose left eye is 32.5 x 7.5 pixels (averaged ratio 11/3) at 22
C7_Witness ==
    /\ stage = "blend"
    /\ input.detection.landmarks = Face([DefaultFace EXCEPT !.le = Eye(130, 15, 15)])
    /\ RawEyeRatio(input.detection.landmarks) = Rat(11, 3)
    /\ face.metrics.eyeConstriction = Num(22)
    /\ RawEyeRatio(Face(DefaultFace)) = Num(3)
    /\ blendEyeConstriction(Face(DefaultFace)) = Num(0)

\* C8: the final engine's isGenuine is true exactly when eyeConstriction > 60
\* and cheekRaise > 50, whatever the other four metrics and the score are
C8_IsGenuine ==
    stage = "geo" =>
        (face.isGenuine
            <=> input.metrics.eyeConstriction.n > 60 /\ input.metrics.cheekRaise.n > 50)

\* eyeConstriction 70, cheekRaise 60, all else 0: genuine, with a score of 43
C8_Witness ==
    /\ stage = "geo"
    /\ input.metrics =
          [ eyeConstriction |-> Num(70), cheekRaise |-> Num(60),
            mouthCurve |-> Num(0), symmetry |-> Num(0),
            lipCornerElevation |-> Num(0), noseLipDistance |-> Num(0) ]
    /\ face.isGenuine
    /\ face.score = Num(43)

\* the i-th FaceResult the final engine's callback builds from the i-th
\* detection of each payload
C9_Expected ==
    [d \in Payloads |->
        [i \in 1..Len(Detector(d).detections) |->
            GeoFaceResult(Detector(d).detections[i], ImageOf(d))]]

\* C9: a successful answer of /api/analyze for a payload in which the detector
\* finds n faces holds exactly n FaceResults, the i-th built from the i-th
\* detection; when the detector finds none, the answer is a success with an
\* empty list (the only other answer is the 500 of a failed model download,
\* where the detector never ran)
C9_OnePerDetection ==
    \A r \in Req :
        req[r].pc = "done" /\ req[r].image # NoImage =>
            LET d == StripPrefix(req[r].image)
                found == Detector(d)
                res == req[r].res
            IN  /\ res.status = 200 =>
                    /\ ~found.throws
                    /\ Len(res.body.people) = Len(found.detections)
                    /\ \A i \in 1..Len(found.detections) :
                          res.body.people[i] = C9_Expected[d][i]
                /\ ~found.throws /\ Len(found.detections) = 0 =>
                    \/ res = Respond(200, [people |-> <<>>])
                    \/ /\ res.status = 500
                       /\ res.body.message = "model load"

\* one request answered with three different FaceResults in the detector's
\* order, another answered 200 with an empty list
C9_Witness ==
    \E r, q \in Req :
        /\ req[r].pc = "done"
        /\ req[r].image.data = "mixed"
        /\ req[r].res.status = 200
        /\ Len(req[r].res.body.people) = 3
        /\ req[r].res.body.people[1] # req[r].res.body.people[3]
        /\ req[r].res.body.people[1] # req[r].res.body.people[2]
        /\ req[q].pc = "done"
        /\ req[q].image.data = "empty"
        /\ req[q].res = Respond(200, [people |-> <<>>])

\* C10: a FaceResult of the final engine comes only from an image of positive
\* width and height (any other size ends in InvalidDimensions), and its
\* bounding box is the detection box divided by the image width and height
C10_InvalidDimensions ==
    stage = "geo" =>
        /\ input.img.width > 0
        /\ input.img.height > 0
        /\ face.boundingBox =
              [ x |-> Rat(input.detection.box.x, Grid * input.img.width),
                y |-> Rat(input.detection.box.y, Grid * input.img.height),
                width |-> Rat(input.detection.box.width, Grid * input.img.width),
                height |-> Rat(input.detection.box.height, Grid * input.img.height) ]

\* every metric the engine scores is 0
AllMetricsZero(m) == \A k \in DOMAIN m : m[k] = Num(0)

C12_Alone ==
    [d \in Payloads |->
        [i \in 1..Len(Detector(d).detections) |->
            MapDetections(<<Detector(d).detections[i]>>, ImageOf(d))[1]]]

\* C12: a request whose detections include a face of zero eye height is not
\* answered with an error because of it (the only 500 is that of a failed model
\* download), and every other face of the request gets the FaceResult it gets
\* when analysed alone
C12_Confined ==
    \A r \in Req :
        req[r].pc = "done" /\ req[r].image # NoImage =>
            LET d == StripPrefix(req[r].image)
                dets == Detector(d).detections
                res == req[r].res
            IN  (\E i \in 1..Len(dets) : ZeroEyeHeight(dets[i].landmarks)) =>
                    \/ /\ res.status = 500
                       /\ res.body.message = "model load"
                    \/ /\ res.status = 200
                       /\ Len(res.body.people) = Len(dets)
                       /\ \A i \in 1..Len(dets) :
                             ~ZeroEyeHeight(dets[i].landmarks) =>
                                 res.body.people[i] = C12_Alone[d][i]

\* a request answered 200 whose second face is degenerate (NaN score) and whose
\* third face has the FaceResult another request got for that face alone
C12_Witness ==
    \E r, q \in Req :
        /\ req[r].pc = "done"
        /\ req[r].image.data = "mixed"
        /\ req[r].res.status = 200
        /\ IsNaN(req[r].res.body.people[2].score)
        /\ req[q].pc = "done"
        /\ req[q].image.data = "one"
        /\ req[q].res.status = 200
        /\ req[q].res.body.people[1] = req[r].res.body.people[3]

\* the four metrics the blend engine scores
BlendPart(m) ==
    [k \in {"eyeConstriction", "cheekRaise", "mouthCurve", "symmetry"} |-> m[k]]

\* every (score, verdict) the blend engine gives on the metric sets and
\* expression vectors followed
BlendOutcomes ==
    { <<b.score, b.verdict>> :
        b \in { BlendScoring(BlendPart(m), Happiness(e)) :
                    m \in MetricSets, e \in ScoreExpressions } }

\* C13: in the blend engine the verdict is a function of the score: a face
\* gets the verdict of every other face that has its score, whatever their
\* happy probabilities and isGenuine values are
C13_VerdictByScore ==
    stage = "blend" =>
        \A p \in BlendOutcomes : p[1] = face.score => p[2] = face.verdict

\* a face of the blend engine scored 40 and called "Real Smile" while another
\* face with the score 40 is called "Polite Smile"
C13_Witness ==
    /\ stage = "blend"
    /\ face.score = Num(40)
    /\ face.verdict = "Real Smile"
    /\ <<Num(40), "Polite Smile">> \in BlendOutcomes

\* calculateMouthCurve with each operand of its ratio a stabilised distance:
\* the height of the upper lip over the mouth corners, and the mouth height
RefMouthCurve(landmarks) ==
    LET mouth == getMouth(landmarks)
        leftCorner == At(mouth, 0)
        rightCorner == At(mouth, 6)
        topCenter == At(mouth, 14)
        bottomCenter == At(mouth, 18)
        mouthHeight == stable(MathAbs(Sub(Y(bottomCenter), Y(topCenter))))
        cornerAvgY == stable(Div(Add(Y(leftCorner), Y(rightCorner)), Num(2)))
        cornerRise == stable(Sub(Y(topCenter), cornerAvgY))
        curvature == Div(cornerRise, mouthHeight)
    IN  Percent(Clamp01(Add(curvature, Rat(1, 2))))

\* The reference formulas: in five of the six functions every distance, width
\* and height of a ratio is an argument of stable already and the percentage
\* is not, so the function is its own reference; calculateMouthCurve is not
RefMetrics(landmarks) ==
    [GeoMetrics(landmarks) EXCEPT !.mouthCurve = RefMouthCurve(landmarks)]

\* C14: each metric of the final engine equals its reference formula, in
\* which every distance, width and height that enters a ratio has gone
\* through stable and the final percentage has not
C14_Stabilised ==
    stage = "geo" => face.metrics = RefMetrics(input.detection.landmarks)

\* a mouth 3 px high whose corners are 0.75 px below an upper lip at
\* y = 280.25: mouthCurve is 25, the reference formula gives 27
C14_Witness ==
    /\ stage = "geo"
    /\ input.detection.landmarks = Face([DefaultFace EXCEPT !.n2m = 121, !.mh = 12])
    /\ face.metrics.mouthCurve = Num(25)
    /\ RefMouthCurve(input.detection.landmarks) = Num(27)

\* the number of faces returned by the cache-miss analyses completed on day d
FacesOn(d) ==
    LET Counted(r) == IF req[r].day = d THEN Len(req[r].res.body.people) ELSE 0
        F[r \in 0..MaxReq] == IF r = 0 THEN 0 ELSE F[r - 1] + Counted(r)
    IN  F[MaxReq]

\* C15: whenever GET /api/counter is called, it reports, for the date it
\* reports, 450 plus the number of faces returned by the cache-miss analyses
\* that completed on that date
C15_CounterExact ==
    CounterResponse.body.count = Baseline + FacesOn(CounterResponse.body.date)

\* the counter has been reset for today although faces were analysed today:
\* they were added to the previous day's count and dropped by the reset
C15_Witness ==
    /\ lastResetDate = today
    /\ dailyCount = Baseline
    /\ FacesOn(today) > 0

\* the payload of request r, and its cache key
PayloadOf(r) == StripPrefix(req[r].image)
KeyOf(r) == hashImage(PayloadOf(r))

\* request r passes from loadModels to detection in this step
BeginsDetection(r) == req[r].pc # "detecting" /\ req'[r].pc = "detecting"

\* request r adds its faces to dailyCount in this step
CountsFaces(r) == req[r].day = NoDay /\ req'[r].day # NoDay

\* C16: for requests that carry the same image within the cache TTL,
\* detection runs at most once (none begins while the image's result is in
\* the cache or while another request is detecting the same image),
\* dailyCount is increased at most once (no request counts faces while the
\* image's result is in the cache), and all of them return the same result
C16_OncePerImage ==
    [][\A r \in Req :
          /\ BeginsDetection(r) =>
                /\ hashImage(StripPrefix(req'[r].image)) \notin DOMAIN cache
                /\ \A q \in Req \ {r} :
                      req[q].pc = "detecting" =>
                          PayloadOf(q) # StripPrefix(req'[r].image)
          /\ CountsFaces(r) => KeyOf(r) \notin DOMAIN cache
          /\ \A q \in Req \ {r} :
                req'[r].pc = "done" /\ req'[q].pc = "done"
                    /\ req'[r].image # NoImage
                    /\ StripPrefix(req'[r].image) = StripPrefix(req'[q].image)
                    /\ req'[r].res.status = 200 /\ req'[q].res.status = 200
                    => req'[r].res = req'[q].res]_vars

\* two requests with the same image are both in detection
C16_Witness ==
    \E r, q \in Req :
        /\ r # q
        /\ req[r].pc = "detecting"
        /\ req[q].pc = "detecting"
        /\ PayloadOf(r) = PayloadOf(q)

\* the loadModels() calls whose download is in flight
DownloadsInFlight ==
    { r \in Req : req[r].pc = "loading" }
        \cup (IF preload = "loading" THEN {0} ELSE {})

\* request r's loadModels() starts a download in this step
BeginsDownload(r) == req[r].pc # "loading" /\ req'[r].pc = "loading"

\* C17: no download of the models begins while another one is in flight or
\* after modelsLoaded has become true
C17_OneDownload ==
    [][\A r \in Req :
          BeginsDownload(r) => DownloadsInFlight = {} /\ ~modelsLoaded]_vars

\* the startup download and the download of a request are both in flight
C17_Witness ==
    /\ preload = "loading"
    /\ \E r \in Req : req[r].pc = "loading"
    /\ Cardinality(DownloadsInFlight) >= 2

\* request r's loadModels() fails in this step: the request ends from "loading"
LoadFailure(r) == req[r].pc = "loading" /\ req'[r].pc = "done"

\* C18: detection is entered only with modelsLoaded true, modelsLoaded never
\* goes from true back to false, and a request whose model load fails ends
\* with status 500 without entering detection and leaves modelsLoaded false
C18_LoadedBeforeDetection ==
    [][/\ \A r \in Req : req'[r].pc = "detecting" => modelsLoaded'
       /\ modelsLoaded => modelsLoaded'
       /\ \A r \in Req :
             LoadFailure(r) => req'[r].res.status = 500 /\ ~modelsLoaded']_vars

\* What holds of a failed load: the request ends with status 500 and
\* modelsLoaded is left as it was
LoadFailureKeepsFlag ==
    [][/\ \A r \in Req : req'[r].pc = "detecting" => modelsLoaded'
       /\ modelsLoaded => modelsLoaded'
       /\ \A r \in Req :
             LoadFailure(r) =>
                 /\ req'[r].res.status = 500
                 /\ modelsLoaded' = modelsLoaded]_vars

\* request r's handler runs in this step
HandlerStep(r) == req'[r] # req[r]

\* request r completes a cache-miss analysis with at least one face
StoresResult(r) ==
    /\ req[r].pc = "detecting"
    /\ req'[r].pc = "done"
    /\ req'[r].res.status = 200
    /\ Len(req'[r].res.body.people) >= 1

\* C19: a step of an /api/analyze handler changes dailyCount and the cache
\* only when it completes a cache-miss analysis with n >= 1 faces: it then
\* adds n to dailyCount and stores, under the hash of the request's image,
\* the response it returns, leaving the other entries alone; a 400, a cache
\* hit, a zero-face answer and a 500 change neither
C19_Frame ==
    [][\A r \in Req :
          HandlerStep(r) =>
              IF StoresResult(r)
              THEN /\ dailyCount' = dailyCount + Len(req'[r].res.body.people)
                   /\ DOMAIN cache' = DOMAIN cache \cup {KeyOf(r)}
                   /\ cache'[KeyOf(r)] = req'[r].res.body
                   /\ \A h \in DOMAIN cache \ {KeyOf(r)} : cache'[h] = cache[h]
              ELSE dailyCount' = dailyCount /\ cache' = cache]_vars

\* the three-face image was analysed once and served from the cache once:
\* three faces counted, one entry stored, equal to both responses
C19_Witness ==
    \E r, q \in Req :
        /\ req[r].pc = "done" /\ req[r].image.data = "mixed" /\ req[r].day # NoDay
        /\ req[q].pc = "done" /\ req[q].image.data = "mixed" /\ req[q].day = NoDay
        /\ req[q].res.status = 200
        /\ cacheHits = 1
        /\ dailyCount = Baseline + 3
        /\ DOMAIN cache = {KeyOf(r)}
        /\ cache[KeyOf(r)] = req[r].res.body
        /\ req[q].res = req[r].res

====
